---- MODULE Spec2Model ----
(***************************************************************************)
(* Model of the calculator crate: Lexer (lexer.rs), Pratt parser           *)
(* (parse.rs), AST (ast.rs), errors (error.rs) and the tree-walking        *)
(* evaluator Calculator (lib.rs).                                          *)
(*                                                                         *)
(* Characters are one-character strings and a &str is a sequence of them.  *)
(* i64 is modelled at a reduced width of I64Bits bits (two's complement),  *)
(* and the u32 of `rhs as u32` at half that width, because TLC's integers  *)
(* are 32 bits wide.  f64 arithmetic is not interpreted: every Float is    *)
(* one abstract value.                                                     *)
(***************************************************************************)
EXTENDS Integers, Sequences, FiniteSets, TLC

\* input:   the string the Calculator was constructed on
\* parser:  Calculator.parser, the Parser's Peekable<Lexer>
\* results: what the calls of Calculator::calculate for this input returned,
\*          oldest first
\* overflow_checks: the build's overflow-checks setting (on in the debug
\*          profile, off in the release profile); fixed for a run
\* lexer:   a Lexer on the input that is iterated directly, as the crate's
\*          tests do: the rest of the input it has not consumed
\* yielded: what the pulls from that Lexer yielded, oldest first
VARIABLES input, parser, results, overflow_checks, lexer, yielded

vars == <<input, parser, results, overflow_checks, lexer, yielded>>

(***************************************************************************)
(* Bounds of the model.                                                    *)
(***************************************************************************)
MaxLen == 5

MaxCalls == 2

MaxPulls == 6

I64Bits == 8

(***************************************************************************)
(* Option and Result.                                                      *)
(***************************************************************************)
None == [tag |-> "None"]

Some(x) == [tag |-> "Some", val |-> x]

Ok(x) == [tag |-> "Ok", val |-> x]

ParseError(msg) == [tag |-> "Err", kind |-> "Parse", msg |-> msg]

ValueError(msg) == [tag |-> "Err", kind |-> "Value", msg |-> msg]

\* A panic unwinds out of the call: the call has no result.
Panic(msg) == [tag |-> "Panic", msg |-> msg]

\* What the `?` operator tests: anything that is not Ok leaves the function.
IsOk(r) == r.tag = "Ok"

\* `let x = ...;`: the rest of the function body F with x bound.
With(x, F(_)) == F(x)

\* `let x = ...?;` on a [res, st] pair: an Err leaves the function with it,
\* an Ok goes on with the rest of the function body F.
Try(r, F(_)) == IF ~IsOk(r.res) THEN r ELSE F(r)

(***************************************************************************)
(* Machine integers.                                                       *)
(***************************************************************************)
RECURSIVE Pow2(_)
Pow2(n) == IF n = 0 THEN 1 ELSE 2 * Pow2(n - 1)

I64_MAX == Pow2(I64Bits - 1) - 1

I64_MIN == -Pow2(I64Bits - 1)

U32Bits == I64Bits \div 2

FitsI64(n) == I64_MIN <= n /\ n <= I64_MAX

\* Two's complement wrap-around of an exact result.
WrapI64(n) == ((n - I64_MIN) % Pow2(I64Bits)) + I64_MIN

\* `rhs as u32` for rhs >= 0: the low bits of the value.
AsU32(n) == n % Pow2(U32Bits)

Abs(n) == IF n < 0 THEN -n ELSE n

\* Rust's `/` on integers truncates towards zero.
TruncDiv(a, b) ==
    IF (a < 0) = (b < 0) THEN Abs(a) \div Abs(b) ELSE -(Abs(a) \div Abs(b))

\* Rust's `%` on integers: the remainder has the sign of the dividend.
TruncRem(a, b) == a - b * TruncDiv(a, b)

(***************************************************************************)
(* Tokens (lexer.rs).                                                      *)
(***************************************************************************)
Token(type) == [type |-> type, text |-> <<>>]

Number(text) == [type |-> "Number", text |-> text]

Token_fmt(t) ==
    CASE t.type = "Number" -> t.text
      [] t.type = "Asterisk" -> <<"*">>
      [] t.type = "Caret" -> <<"^">>
      [] t.type = "Equal" -> <<"=">>
      [] t.type = "GreaterThan" -> <<">">>
      [] t.type = "GreaterThanOrEqual" -> <<">", "=">>
      [] t.type = "LessOrGreaterThan" -> <<"<", ">">>
      [] t.type = "LessThan" -> <<"<">>
      [] t.type = "LessThanOrEqual" -> <<"<", "=">>
      [] t.type = "Minus" -> <<"-">>
      [] t.type = "Percent" -> <<"%">>
      [] t.type = "Plus" -> <<"+">>
      [] t.type = "Slash" -> <<"/">>
      [] t.type = "OpenParen" -> <<"(">>
      [] t.type = "CloseParen" -> <<")">>
      [] t.type = "Exclamation" -> <<"!">>

(***************************************************************************)
(* Lexer (lexer.rs).  The Lexer's state is the rest of the input, `iter`.  *)
(* Every operator returns the value together with the iterator it leaves.  *)
(***************************************************************************)
is_ascii_digit(c) == c \in {"0", "1", "2", "3", "4", "5", "6", "7", "8", "9"}

is_whitespace(c) == c \in {" "}

is_dot(c) == c = "."

\* next_while: the longest prefix of iter whose characters satisfy the
\* predicate, given as the set of positions of iter that do not satisfy it.
PrefixLen(iter, stops) ==
    IF stops = {} THEN Len(iter)
    ELSE (CHOOSE i \in stops : \A j \in stops : i <= j) - 1

DigitRun(iter) ==
    PrefixLen(iter, {i \in 1..Len(iter) : ~is_ascii_digit(iter[i])})

SpaceRun(iter) ==
    PrefixLen(iter, {i \in 1..Len(iter) : ~is_whitespace(iter[i])})

Drop(iter, n) == SubSeq(iter, n + 1, Len(iter))

Take(iter, n) == SubSeq(iter, 1, n)

consume_space(iter) == Drop(iter, SpaceRun(iter))

scan_number(iter) ==
    LET n1 == DigitRun(iter)
        r1 == Drop(iter, n1)
        dot == IF Len(r1) > 0 /\ is_dot(r1[1]) THEN 1 ELSE 0
        r2 == Drop(r1, dot)
        n2 == DigitRun(r2)
    IN [tok |-> Some(Number(Take(iter, n1 + dot + n2))),
        iter |-> Drop(r2, n2)]

\* The one-character symbol table of scan_symbol.
Tokenizer(c) ==
    CASE c = "=" -> Some(Token("Equal"))
      [] c = ">" -> Some(Token("GreaterThan"))
      [] c = "<" -> Some(Token("LessThan"))
      [] c = "+" -> Some(Token("Plus"))
      [] c = "-" -> Some(Token("Minus"))
      [] c = "*" -> Some(Token("Asterisk"))
      [] c = "/" -> Some(Token("Slash"))
      [] c = "^" -> Some(Token("Caret"))
      [] c = "%" -> Some(Token("Percent"))
      [] c = "(" -> Some(Token("OpenParen"))
      [] c = ")" -> Some(Token("CloseParen"))
      [] c = "!" -> Some(Token("Exclamation"))
      [] OTHER -> None

scan_symbol(iter) ==
    LET first == Tokenizer(iter[1])
        rest == Drop(iter, 1)
        follows(c) == Len(rest) > 0 /\ rest[1] = c
    IN IF first = None THEN [tok |-> None, iter |-> iter]
       ELSE IF first.val.type = "LessThan" /\ follows(">")
            THEN [tok |-> Some(Token("LessOrGreaterThan")), iter |-> Drop(rest, 1)]
       ELSE IF first.val.type = "LessThan" /\ follows("=")
            THEN [tok |-> Some(Token("LessThanOrEqual")), iter |-> Drop(rest, 1)]
       ELSE IF first.val.type = "GreaterThan" /\ follows("=")
            THEN [tok |-> Some(Token("GreaterThanOrEqual")), iter |-> Drop(rest, 1)]
       ELSE [tok |-> first, iter |-> rest]

scan(iter) ==
    With(consume_space(iter), LAMBDA it :
      IF Len(it) = 0 THEN [tok |-> None, iter |-> it]
      ELSE IF is_ascii_digit(it[1]) THEN scan_number(it)
      ELSE scan_symbol(it))

\* Mutation: the unrecognised character is reported and left in the input.
Lexer_next_stuck(iter) ==
    With(scan(consume_space(iter)), LAMBDA s :
      IF s.tok # None
      THEN [item |-> Some(Ok(s.tok.val)), iter |-> s.iter]
      ELSE IF Len(s.iter) = 0
           THEN [item |-> None, iter |-> s.iter]
           ELSE [item |-> Some(ParseError(<<"Unexpected character ", s.iter[1]>>)),
                 iter |-> s.iter])

\* Iterator::next of the Lexer: [item |-> Option<Result<Token>>, iter |-> ...]
Lexer_next(iter) ==
    With(scan(consume_space(iter)), LAMBDA s :
      IF s.tok # None
      THEN [item |-> Some(Ok(s.tok.val)), iter |-> s.iter]
      ELSE IF Len(s.iter) = 0
           THEN [item |-> None, iter |-> s.iter]
           ELSE [item |-> Some(ParseError(<<"Unexpected character ", s.iter[1]>>)),
                 iter |-> Drop(s.iter, 1)])

Lexer_new(in) == in

(***************************************************************************)
(* AST (ast.rs) and Value (lib.rs).                                        *)
(***************************************************************************)
Integer(n) == [kind |-> "Integer", v |-> n]

Float == [kind |-> "Float"]

Literal(lit) == [node |-> "Literal", lit |-> lit]

Unary(op, lhs) == [node |-> op, lhs |-> lhs]

Binary(op, lhs, rhs) == [node |-> op, lhs |-> lhs, rhs |-> rhs]

\* impl From<ast::Literal> for Value
Value_from(lit) == IF lit.kind = "Integer" THEN Integer(lit.v) ELSE Float

(***************************************************************************)
(* Operator tables (parse.rs).                                             *)
(***************************************************************************)
ASSOC_LEFT == 1

ASSOC_RIGHT == 0

PrefixOperator_from(token) ==
    CASE token.type = "Minus" -> Some("Minus")
      [] token.type = "Plus" -> Some("Plus")
      [] OTHER -> None

PrefixOperator_assoc(op) == ASSOC_RIGHT

PrefixOperator_prec(op) == 9

PrefixOperator_build(op, lhs) ==
    CASE op = "Minus" -> Unary("Negate", lhs)
      [] op = "Plus" -> Unary("Assert", lhs)

\* Mutation: the table keyed by the variants' names instead of their arithmetic.
InfixOperator_from_by_name(token) ==
    CASE token.type = "Plus" -> Some("Add")
      [] token.type = "Minus" -> Some("Subtract")
      [] token.type = "Caret" -> Some("Exponentiate")
      [] token.type = "Asterisk" -> Some("Multiply")
      [] token.type = "Slash" -> Some("Divide")
      [] token.type = "Percent" -> Some("Modulo")
      [] OTHER -> None

InfixOperator_from(token) ==
    CASE token.type = "Plus" -> Some("Add")
      [] token.type = "Minus" -> Some("Divide")
      [] token.type = "Caret" -> Some("Exponentiate")
      [] token.type = "Asterisk" -> Some("Multiply")
      [] token.type = "Slash" -> Some("Subtract")
      [] token.type = "Percent" -> Some("Modulo")
      [] OTHER -> None

\* Mutation: no operator is right-associative.
InfixOperator_assoc_all_left(op) == ASSOC_LEFT

InfixOperator_assoc(op) ==
    IF op = "Exponentiate" THEN ASSOC_RIGHT ELSE ASSOC_LEFT

InfixOperator_prec(op) ==
    CASE op \in {"Add", "Subtract"} -> 5
      [] op \in {"Multiply", "Divide", "Modulo"} -> 6
      [] op = "Exponentiate" -> 7

InfixOperator_build(op, lhs, rhs) == Binary(op, lhs, rhs)

PostfixOperator_from(token) ==
    CASE token.type = "Exclamation" -> Some("Factorial")
      [] OTHER -> None

PostfixOperator_assoc(op) == ASSOC_LEFT

PostfixOperator_prec(op) == 8

PostfixOperator_build(op, lhs) == Unary("Factorial", lhs)

\* The trait's dispatch: O is one of "Prefix", "Infix", "Postfix".
Operator_from(O, token) ==
    CASE O = "Prefix" -> PrefixOperator_from(token)
      [] O = "Infix" -> InfixOperator_from(token)
      [] O = "Postfix" -> PostfixOperator_from(token)

Operator_prec(O, op) ==
    CASE O = "Prefix" -> PrefixOperator_prec(op)
      [] O = "Infix" -> InfixOperator_prec(op)
      [] O = "Postfix" -> PostfixOperator_prec(op)

(***************************************************************************)
(* Parser (parse.rs).  The Parser's state is its Peekable<Lexer>:          *)
(* [iter |-> the Lexer, peeked |-> None or Some(the item peek() cached)].  *)
(* Every method returns [res |-> its Result, st |-> the state it leaves].  *)
(***************************************************************************)
Parser_new(query) == [iter |-> Lexer_new(query), peeked |-> None]

\* Peekable::next: the cached item if there is one, else the Lexer's next.
Peekable_next(st) ==
    IF st.peeked # None
    THEN [item |-> st.peeked.val, st |-> [iter |-> st.iter, peeked |-> None]]
    ELSE With(Lexer_next(st.iter), LAMBDA n :
           [item |-> n.item, st |-> [iter |-> n.iter, peeked |-> None]])

\* Peekable::peek: fills the cache from the Lexer when it is empty.
Peekable_peek(st) ==
    IF st.peeked # None
    THEN [item |-> st.peeked.val, st |-> st]
    ELSE With(Lexer_next(st.iter), LAMBDA n :
           [item |-> n.item, st |-> [iter |-> n.iter, peeked |-> Some(n.item)]])

Parser_next(st) ==
    With(Peekable_next(st), LAMBDA n :
      [res |-> IF n.item = None
               THEN ParseError(<<"Unexpected end of input">>)
               ELSE n.item.val,
       st |-> n.st])

\* peek().cloned().transpose(): Result<Option<Token>>
Parser_peek(st) ==
    With(Peekable_peek(st), LAMBDA p :
      [res |-> IF p.item = None THEN Ok(None)
               ELSE IF IsOk(p.item.val) THEN Ok(Some(p.item.val.val))
               ELSE p.item.val,
       st |-> p.st])

\* Mutation: next_expect without the comparison against the expected token.
next_expect_any(st, expect) ==
    IF expect # None
    THEN Try(Parser_next(st), LAMBDA n :
           [res |-> Ok(Some(n.res.val)), st |-> n.st])
    ELSE Try(Parser_peek(st), LAMBDA p :
           IF p.res.val # None
           THEN [res |-> ParseError(<<"Unexpected token ">> \o Token_fmt(p.res.val.val)),
                 st |-> p.st]
           ELSE [res |-> Ok(None), st |-> p.st])

next_expect(st, expect) ==
    IF expect # None
    THEN Try(Parser_next(st), LAMBDA n :
           IF n.res.val = expect.val
           THEN [res |-> Ok(Some(n.res.val)), st |-> n.st]
           ELSE [res |-> ParseError(<<"Expected token ">> \o Token_fmt(expect.val)
                                    \o <<", found ">> \o Token_fmt(n.res.val)),
                 st |-> n.st])
    ELSE Try(Parser_peek(st), LAMBDA p :
           IF p.res.val # None
           THEN [res |-> ParseError(<<"Unexpected token ">> \o Token_fmt(p.res.val.val)),
                 st |-> p.st]
           ELSE [res |-> Ok(None), st |-> p.st])

\* Result<Option<O>>: the operator O of the next token, consumed, if the peeked
\* token is one of precedence at least min_prec.  A peek that is an Err counts
\* as no token: peek().unwrap_or(None).
next_if_operator(O, st, min_prec) ==
    With(Parser_peek(st), LAMBDA p :
      With(LET tok == IF IsOk(p.res) THEN p.res.val ELSE None
               from == IF tok = None THEN None ELSE Operator_from(O, tok.val)
           IN IF from # None /\ Operator_prec(O, from.val) >= min_prec
              THEN from ELSE None,
           LAMBDA operator :
             IF operator # None
             THEN Try(Parser_next(p.st), LAMBDA n : [res |-> Ok(operator), st |-> n.st])
             ELSE [res |-> Ok(None), st |-> p.st]))

\* str::parse::<i64> of a non-empty run of ASCII digits: -1 stands for the
\* ParseIntError of a number too large for the type.
RECURSIVE ParseDigits(_)
ParseDigits(n) ==
    IF Len(n) = 0 THEN 0
    ELSE LET hi == ParseDigits(Take(n, Len(n) - 1))
             d == CHOOSE k \in 0..9 :
                    <<"0", "1", "2", "3", "4", "5", "6", "7", "8", "9">>[k + 1] = n[Len(n)]
         IN IF hi = -1 \/ hi * 10 + d > I64_MAX THEN -1 ELSE hi * 10 + d

parse_i64(n) ==
    IF ParseDigits(n) = -1
    THEN ParseError(<<"number too large to fit in target type">>)
    ELSE Ok(ParseDigits(n))

RECURSIVE parse_expression(_, _)
RECURSIVE parse_expression_atom(_)
RECURSIVE postfix_loop(_, _, _)
RECURSIVE infix_loop(_, _, _)

parse_expression_atom(st) ==
    Try(Parser_next(st), LAMBDA n :
      IF n.res.val.type = "Number"
      THEN IF \A i \in 1..Len(n.res.val.text) : is_ascii_digit(n.res.val.text[i])
           THEN With(parse_i64(n.res.val.text), LAMBDA v :
                  IF IsOk(v) THEN [res |-> Ok(Literal(Integer(v.val))), st |-> n.st]
                  ELSE [res |-> v, st |-> n.st])
           ELSE [res |-> Ok(Literal(Float)), st |-> n.st]
      ELSE IF n.res.val.type = "OpenParen"
           THEN Try(parse_expression(n.st, 0), LAMBDA expr :
                  Try(next_expect(expr.st, Some(Token("CloseParen"))), LAMBDA c :
                    [res |-> expr.res, st |-> c.st]))
      ELSE [res |-> ParseError(<<"Expected expression atom, found ">>
                               \o Token_fmt(n.res.val)),
            st |-> n.st])

\* while let Some(postfix) = self.next_if_operator::<PostfixOperator>(min_prec)?
postfix_loop(st, lhs, min_prec) ==
    Try(next_if_operator("Postfix", st, min_prec), LAMBDA postfix :
      IF postfix.res.val = None THEN [res |-> Ok(lhs), st |-> postfix.st]
      ELSE postfix_loop(postfix.st,
                        PostfixOperator_build(postfix.res.val.val, lhs), min_prec))

\* while let Some(infix) = self.next_if_operator::<InfixOperator>(min_prec)?
infix_loop(st, lhs, min_prec) ==
    Try(next_if_operator("Infix", st, min_prec), LAMBDA infix :
      IF infix.res.val = None THEN [res |-> Ok(lhs), st |-> infix.st]
      ELSE Try(parse_expression(infix.st, InfixOperator_prec(infix.res.val.val)
                                          + InfixOperator_assoc(infix.res.val.val)),
               LAMBDA rhs :
                 infix_loop(rhs.st,
                            InfixOperator_build(infix.res.val.val, lhs, rhs.res.val),
                            min_prec)))

parse_expression(st, min_prec) ==
    Try(next_if_operator("Prefix", st, min_prec), LAMBDA prefix :
      Try(IF prefix.res.val # None
          THEN Try(parse_expression(prefix.st, PrefixOperator_prec(prefix.res.val.val)
                                               + PrefixOperator_assoc(prefix.res.val.val)),
                   LAMBDA operand :
                     [res |-> Ok(PrefixOperator_build(prefix.res.val.val, operand.res.val)),
                      st |-> operand.st])
          ELSE parse_expression_atom(prefix.st),
          LAMBDA lhs :
            Try(postfix_loop(lhs.st, lhs.res.val, min_prec), LAMBDA post :
              infix_loop(post.st, post.res.val, min_prec))))

Parser_parse(st) == parse_expression(st, 0)

(***************************************************************************)
(* Evaluator (lib.rs).  checks is the build's overflow-checks setting: on  *)
(* (debug profile) an overflowing `-`, unary `-` or `*` panics, off        *)
(* (release profile) it wraps.  Division and remainder panic on overflow   *)
(* in every build.                                                         *)
(***************************************************************************)
checked_add(a, b) == IF FitsI64(a + b) THEN Some(a + b) ELSE None

checked_mul(a, b) == IF FitsI64(a * b) THEN Some(a * b) ELSE None

\* i64::checked_pow: the power by repeated checked multiplication.
RECURSIVE checked_pow(_, _)
checked_pow(base, exp) ==
    IF exp = 0 THEN Some(1)
    ELSE IF base \in {0, 1} THEN Some(base)
    ELSE LET r == checked_pow(base, exp - 1)
         IN IF r = None THEN None ELSE checked_mul(r.val, base)

\* (1..=i).product(), from k on with the product acc so far.  A product that
\* has wrapped to 0 stays 0 whatever factors follow, so the remaining ones
\* are not multiplied in.
RECURSIVE product(_, _, _, _)
product(k, i, acc, checks) ==
    IF k > i \/ acc = 0 THEN Ok(Integer(acc))
    ELSE IF FitsI64(acc * k) THEN product(k + 1, i, acc * k, checks)
    ELSE IF checks THEN Panic("attempt to multiply with overflow")
    ELSE product(k + 1, i, WrapI64(acc * k), checks)

IsInteger(v) == v.kind = "Integer"

\* Mutation: wrapping addition in place of checked_add.
Add_wrapping(lhs, rhs) ==
    IF IsInteger(lhs) /\ IsInteger(rhs)
    THEN Ok(Integer(WrapI64(lhs.v + rhs.v)))
    ELSE Ok(Float)

Add(lhs, rhs) ==
    IF IsInteger(lhs) /\ IsInteger(rhs)
    THEN IF checked_add(lhs.v, rhs.v) = None
         THEN ValueError(<<"Integer overflow">>)
         ELSE Ok(Integer(checked_add(lhs.v, rhs.v).val))
    ELSE Ok(Float)

\* Operation::Divide computes lhs - rhs.
Divide(lhs, rhs, checks) ==
    IF IsInteger(lhs) /\ IsInteger(rhs)
    THEN IF FitsI64(lhs.v - rhs.v) THEN Ok(Integer(lhs.v - rhs.v))
         ELSE IF checks THEN Panic("attempt to subtract with overflow")
         ELSE Ok(Integer(WrapI64(lhs.v - rhs.v)))
    ELSE Ok(Float)

Exponentiate(lhs, rhs) ==
    IF IsInteger(lhs) /\ IsInteger(rhs)
    THEN IF rhs.v >= 0
         THEN IF checked_pow(lhs.v, AsU32(rhs.v)) = None
              THEN ValueError(<<"Integer overflow">>)
              ELSE Ok(Integer(checked_pow(lhs.v, AsU32(rhs.v)).val))
         ELSE Ok(Float)
    ELSE Ok(Float)

Factorial(lhs, checks) ==
    IF IsInteger(lhs)
    THEN IF lhs.v < 0
         THEN ValueError(<<"Can't take factorial of negative number">>)
         ELSE product(1, lhs.v, 1, checks)
    ELSE ValueError(<<"Can't take factorial of ", "{float}">>)

Modulo(lhs, rhs) ==
    IF IsInteger(lhs) /\ IsInteger(rhs)
    THEN IF rhs.v = 0 THEN ValueError(<<"Can't divide by zero">>)
         ELSE IF lhs.v = I64_MIN /\ rhs.v = -1
              THEN Panic("attempt to calculate the remainder with overflow")
         ELSE Ok(Integer(TruncRem(lhs.v, rhs.v)))
    ELSE Ok(Float)

Multiply(lhs, rhs) ==
    IF IsInteger(lhs) /\ IsInteger(rhs)
    THEN IF checked_mul(lhs.v, rhs.v) = None
         THEN ValueError(<<"Integer overflow">>)
         ELSE Ok(Integer(checked_mul(lhs.v, rhs.v).val))
    ELSE Ok(Float)

Negate(lhs, checks) ==
    IF IsInteger(lhs)
    THEN IF FitsI64(-lhs.v) THEN Ok(Integer(-lhs.v))
         ELSE IF checks THEN Panic("attempt to negate with overflow")
         ELSE Ok(Integer(WrapI64(-lhs.v)))
    ELSE Ok(Float)

\* Operation::Subtract computes lhs / rhs.
Subtract(lhs, rhs) ==
    IF IsInteger(lhs) /\ IsInteger(rhs)
    THEN IF rhs.v = 0 THEN ValueError(<<"Can't divide by zero">>)
         ELSE IF lhs.v = I64_MIN /\ rhs.v = -1
              THEN Panic("attempt to divide with overflow")
         ELSE Ok(Integer(TruncDiv(lhs.v, rhs.v)))
    ELSE Ok(Float)

RECURSIVE calculate_expression(_, _)
calculate_expression(expression, checks) ==
    IF expression.node = "Literal" THEN Ok(Value_from(expression.lit))
    ELSE LET lhs == calculate_expression(expression.lhs, checks)
         IN IF ~IsOk(lhs) THEN lhs
            ELSE IF expression.node = "Assert" THEN lhs
            ELSE IF expression.node = "Factorial" THEN Factorial(lhs.val, checks)
            ELSE IF expression.node = "Negate" THEN Negate(lhs.val, checks)
            ELSE LET rhs == calculate_expression(expression.rhs, checks)
                 IN IF ~IsOk(rhs) THEN rhs
                    ELSE CASE expression.node = "Add" -> Add(lhs.val, rhs.val)
                           [] expression.node = "Divide" ->
                                Divide(lhs.val, rhs.val, checks)
                           [] expression.node = "Exponentiate" ->
                                Exponentiate(lhs.val, rhs.val)
                           [] expression.node = "Modulo" -> Modulo(lhs.val, rhs.val)
                           [] expression.node = "Multiply" -> Multiply(lhs.val, rhs.val)
                           [] expression.node = "Subtract" -> Subtract(lhs.val, rhs.val)

\* Calculator::calculate on a Calculator whose parser is in state st:
\* [res |-> the call's result, st |-> the parser's state after the call]
Calculator_calculate(st, checks) ==
    Try(Parser_parse(st), LAMBDA expr :
      [res |-> calculate_expression(expr.res.val, checks), st |-> expr.st])

Calculator_new(in) == Parser_new(in)

\* The trait Calculate: a fresh Calculator for every evaluation.
Calculate_calculate(in, checks) ==
    Calculator_calculate(Calculator_new(in), checks).res

(***************************************************************************)
(* The state machine: a caller holds an input string, constructs           *)
(* Calculators on it and calls calculate on the current one.               *)
(***************************************************************************)
RECURSIVE Strings(_, _)
Strings(alphabet, n) ==
    IF n = 0 THEN {<<>>}
    ELSE LET shorter == Strings(alphabet, n - 1)
         IN shorter \cup {Append(s, c) : s \in {t \in shorter : Len(t) = n - 1},
                                         c \in alphabet}

InitOn(inputs) ==
    /\ input \in inputs
    /\ parser = Calculator_new(input)
    /\ results = <<>>
    /\ overflow_checks \in BOOLEAN
    /\ lexer = Lexer_new(input)
    /\ yielded = <<>>

\* calculator.calculate()
Calculate ==
    /\ Len(results) < MaxCalls
    /\ LET c == Calculator_calculate(parser, overflow_checks)
       IN /\ parser' = c.st
          /\ results' = Append(results, c.res)
    /\ UNCHANGED <<input, overflow_checks, lexer, yielded>>

\* calculator = Calculator::new(input)
New ==
    /\ parser' = Calculator_new(input)
    /\ UNCHANGED <<input, results, overflow_checks, lexer, yielded>>

Next == Calculate \/ New

\* lexer.next()
Pull ==
    /\ Len(yielded) < MaxPulls
    /\ LET n == Lexer_next(lexer)
       IN /\ lexer' = n.iter
          /\ yielded' = Append(yielded, n.item)
    /\ UNCHANGED <<input, parser, results, overflow_checks>>

\* The Lexer iterated on its own.
NextLexer == Pull

\* Inputs of infix arithmetic: precedence and the meaning of `-` and `/`.
Alphabet == {"0", "2", "3", "+", "-", "*", "/"}

Init == InitOn(Strings(Alphabet, MaxLen))

Spec == Init /\ [][Next]_vars

\* Inputs with leftover tokens, unrecognised characters and parentheses.
AlphabetTokens == {"1", "2", " ", "+", "(", ")", "=", "m"}

InitTokens == InitOn(Strings(AlphabetTokens, MaxLen))

SpecTokens == InitTokens /\ [][Next]_vars

\* Inputs of chained `^`, `-` and `/`, with exponents beyond the u32 range.
AlphabetPow == {"1", "2", "3", "6", "^", "-", "/"}

InitPow == InitOn(Strings(AlphabetPow, MaxLen))

SpecPow == InitPow /\ [][Next]_vars

\* Inputs of sums and products up to and beyond the largest i64.
AlphabetOverflow == {"1", "2", "7", "9", "+", "*", "-"}

InitOverflow == InitOn(Strings(AlphabetOverflow, MaxLen))

SpecOverflow == InitOverflow /\ [][Next]_vars

\* Inputs of factorials of small, large, negated and Float operands.
AlphabetFactorial == {"0", "1", "4", "6", "!", "-", "."}

InitFactorial == InitOn(Strings(AlphabetFactorial, MaxLen))

SpecFactorial == InitFactorial /\ [][Next]_vars

\* Inputs with operators, a postfix symbol and parentheses where an atom is
\* expected.
AlphabetAtom == {"1", "-", "*", "!", "(", ")"}

InitAtom == InitOn(Strings(AlphabetAtom, MaxLen))

SpecAtom == InitAtom /\ [][Next]_vars

\* Inputs of numbers, one- and two-character symbols, spaces and an
\* unrecognised character, for the Lexer iterated on its own.
AlphabetLexer == {"1", ".", "+", "<", ">", " ", "m"}

InitLexer == InitOn(Strings(AlphabetLexer, MaxLen))

SpecLexer == InitLexer /\ [][NextLexer]_vars

(***************************************************************************)
(* Reading the input as the claims do: integer literals joined by infix    *)
(* symbols.  A literal is a non-empty run of digits that fits an i64.      *)
(***************************************************************************)
IsLit(s) ==
    /\ Len(s) > 0
    /\ \A i \in 1..Len(s) : is_ascii_digit(s[i])
    /\ ParseDigits(s) # -1

LitVal(s) == ParseDigits(s)

\* The pairs <<a, b>> such that the input reads "a op b".
Shape2(op) ==
    {<<LitVal(SubSeq(input, 1, i - 1)), LitVal(SubSeq(input, i + 1, Len(input)))>> :
        i \in {k \in 1..Len(input) :
                 /\ input[k] = op
                 /\ IsLit(SubSeq(input, 1, k - 1))
                 /\ IsLit(SubSeq(input, k + 1, Len(input)))}}

\* The triples <<a, b, c>> such that the input reads "a op1 b op2 c".
Shape3(op1, op2) ==
    {<<LitVal(SubSeq(input, 1, p[1] - 1)),
       LitVal(SubSeq(input, p[1] + 1, p[2] - 1)),
       LitVal(SubSeq(input, p[2] + 1, Len(input)))>> :
        p \in {q \in (1..Len(input)) \X (1..Len(input)) :
                 /\ q[1] < q[2]
                 /\ input[q[1]] = op1
                 /\ input[q[2]] = op2
                 /\ IsLit(SubSeq(input, 1, q[1] - 1))
                 /\ IsLit(SubSeq(input, q[1] + 1, q[2] - 1))
                 /\ IsLit(SubSeq(input, q[2] + 1, Len(input)))}}

\* A step that is a call of calculate, and the result that call returned.
IsCall == Len(results') = Len(results) + 1

Returned == results'[Len(results')]

\* The items the Lexer yields from iter until it has consumed down to stop.
RECURSIVE Pulled(_, _)
Pulled(iter, stop) ==
    IF Len(iter) <= Len(stop) THEN <<>>
    ELSE LET n == Lexer_next(iter)
         IN <<n.item>> \o Pulled(n.iter, stop)

IsLexError(item) ==
    /\ item # None
    /\ ~IsOk(item.val)
    /\ item.val.msg[1] = "Unexpected character "

(***************************************************************************)
(* C1: infix `*`, `/`, `%` bind tighter (6) than infix `+`, `-` (5), all   *)
(* left-associative: for integer literals a, b, c, without overflow and    *)
(* with non-zero divisors, "a+b/c" gives a+(b/c), "a-b*c" gives a-(b*c)    *)
(* and "a/b*c" gives (a/b)*c.                                              *)
(***************************************************************************)
C1_PrecedenceOfInfix ==
    Len(results) >= 1 =>
      /\ \A t \in Shape3("+", "/") :
           (t[3] # 0 /\ FitsI64(t[1] + TruncDiv(t[2], t[3])))
             => results[1] = Ok(Integer(t[1] + TruncDiv(t[2], t[3])))
      /\ \A t \in Shape3("-", "*") :
           (FitsI64(t[2] * t[3]) /\ FitsI64(t[1] - t[2] * t[3]))
             => results[1] = Ok(Integer(t[1] - t[2] * t[3]))
      /\ \A t \in Shape3("/", "*") :
           (t[2] # 0 /\ FitsI64(TruncDiv(t[1], t[2]) * t[3]))
             => results[1] = Ok(Integer(TruncDiv(t[1], t[2]) * t[3]))

(***************************************************************************)
(* C2: parsing consumes the full token sequence: a call of calculate that  *)
(* leaves a token unconsumed behind the expression it parsed returns a     *)
(* Parse error, never a Value.                                             *)
(***************************************************************************)
LeftoverToken(st) ==
    LET item == Peekable_peek(st).item
    IN item # None /\ IsOk(item.val)

C2_ConsumesAllTokens ==
    [][(IsCall /\ LeftoverToken(parser'))
         => (Returned.tag = "Err" /\ Returned.kind = "Parse")]_vars

(***************************************************************************)
(* C3: a lexical error is never swallowed: when the Lexer yields an        *)
(* "Unexpected character" error for an item the parser pulls or peeks      *)
(* during a call of calculate, the call returns that Parse error.          *)
(***************************************************************************)
LexErrorsPulled(st, st2) ==
    LET cached == IF st.peeked = None THEN <<>> ELSE <<st.peeked.val>>
        items == cached \o Pulled(st.iter, st2.iter)
    IN {items[i].val : i \in {k \in 1..Len(items) : IsLexError(items[k])}}

C3_LexErrorPropagates ==
    [][IsCall => \A e \in LexErrorsPulled(parser, parser') : Returned = e]_vars

(***************************************************************************)
(* C4: evaluation is idempotent and keeps no state between calls: every    *)
(* call of calculate for an input, on the same Calculator or on a fresh    *)
(* one, returns what the first call returned.                              *)
(***************************************************************************)
C4_Idempotent ==
    \A i \in 1..Len(results) : results[i] = results[1]

(***************************************************************************)
(* C5: the surface symbol decides the arithmetic: for integer literals a   *)
(* and b, "a-b" returns Integer(a-b) and never a divide-by-zero error,     *)
(* "a/b" returns the truncating quotient when b is not 0 and the Value     *)
(* error "Can't divide by zero" when b is 0.                               *)
(***************************************************************************)
C5_SurfaceSymbolDecides ==
    Len(results) >= 1 =>
      /\ \A t \in Shape2("-") : results[1] = Ok(Integer(t[1] - t[2]))
      /\ \A t \in Shape2("/") :
           results[1] = IF t[2] = 0 THEN ValueError(<<"Can't divide by zero">>)
                        ELSE Ok(Integer(TruncDiv(t[1], t[2])))

\* "a-0" has returned Integer(a), not "Can't divide by zero".
C5_Witness ==
    /\ Len(results) >= 1
    /\ \E t \in Shape2("-") : t[2] = 0 /\ results[1] = Ok(Integer(t[1]))

(***************************************************************************)
(* Exact arithmetic to compare with.  The saturating forms stop growing    *)
(* once the exact value is beyond I64_MAX, so that it is never computed.   *)
(***************************************************************************)
RECURSIVE SatPow(_, _)
SatPow(b, e) ==
    IF e = 0 THEN 1
    ELSE IF b \in {0, 1} THEN b
    ELSE LET r == SatPow(b, e - 1)
         IN IF r > I64_MAX THEN r ELSE r * b

RECURSIVE SatFactorial(_)
SatFactorial(n) ==
    IF n = 0 THEN 1
    ELSE LET r == SatFactorial(n - 1)
         IN IF r > I64_MAX THEN r ELSE r * n

OverflowError == ValueError(<<"Integer overflow">>)

\* A literal, or a literal under a prefix `-`.
IsSignedLit(s) == IsLit(s) \/ (Len(s) > 1 /\ s[1] = "-" /\ IsLit(Drop(s, 1)))

SignedVal(s) == IF s[1] = "-" THEN -LitVal(Drop(s, 1)) ELSE LitVal(s)

\* The pairs <<x, y>> of operands such that the input reads "x op y", each of
\* x and y a literal or a negated literal.
SignedShape2(op) ==
    {<<SignedVal(SubSeq(input, 1, i - 1)), SignedVal(SubSeq(input, i + 1, Len(input)))>> :
        i \in {k \in 1..Len(input) :
                 /\ input[k] = op
                 /\ IsSignedLit(SubSeq(input, 1, k - 1))
                 /\ IsSignedLit(SubSeq(input, k + 1, Len(input)))}}

\* A Float literal: digits, a dot, and digits or nothing.
IsFloatLit(s) ==
    \E k \in 2..Len(s) :
      /\ s[k] = "."
      /\ \A i \in 1..(k - 1) : is_ascii_digit(s[i])
      /\ \A i \in (k + 1)..Len(s) : is_ascii_digit(s[i])

(***************************************************************************)
(* C6: exponentiation of an Integer base b by a non-negative Integer       *)
(* exponent e is a checked integer power: Integer(b^e) when b^e fits an    *)
(* i64 and the Value error "Integer overflow" otherwise, for every e up to *)
(* the largest i64.                                                        *)
(***************************************************************************)
C6_CheckedPower ==
    Len(results) >= 1 =>
      \A t \in Shape2("^") :
        results[1] = IF SatPow(t[1], t[2]) <= I64_MAX
                     THEN Ok(Integer(SatPow(t[1], t[2])))
                     ELSE OverflowError

(***************************************************************************)
(* C7: Integer addition and multiplication are checked: for Integer        *)
(* operands x and y, `+` returns Integer(x+y) and `*` returns Integer(x*y) *)
(* when the exact result fits an i64, and the Value error "Integer         *)
(* overflow" otherwise; a wrapped value is never returned.                 *)
(***************************************************************************)
C7_CheckedAddMul ==
    Len(results) >= 1 =>
      /\ \A t \in SignedShape2("+") :
           results[1] = IF FitsI64(t[1] + t[2]) THEN Ok(Integer(t[1] + t[2]))
                        ELSE OverflowError
      /\ \A t \in SignedShape2("*") :
           results[1] = IF FitsI64(t[1] * t[2]) THEN Ok(Integer(t[1] * t[2]))
                        ELSE OverflowError

\* A sum or a product that does not fit has returned "Integer overflow".
C7_Witness ==
    /\ Len(results) >= 1
    /\ results[1] = OverflowError
    /\ \/ \E t \in SignedShape2("+") : ~FitsI64(t[1] + t[2])
       \/ \E t \in SignedShape2("*") : ~FitsI64(t[1] * t[2])

(***************************************************************************)
(* C8: `^` is right-associative and every other infix operator is          *)
(* left-associative: for integer literals a, b, c, "a^b^c" is evaluated as *)
(* a^(b^c), "a-b-c" as (a-b)-c and "a/b/c" as (a/b)/c.                     *)
(***************************************************************************)
Lit(n) == Literal(Integer(n))

\* The node the parser builds for the infix symbol sym.
Infix(sym, lhs, rhs) ==
    InfixOperator_build(InfixOperator_from(Tokenizer(sym).val).val, lhs, rhs)

GroupedRight(sym, t) ==
    calculate_expression(Infix(sym, Lit(t[1]), Infix(sym, Lit(t[2]), Lit(t[3]))),
                         overflow_checks)

GroupedLeft(sym, t) ==
    calculate_expression(Infix(sym, Infix(sym, Lit(t[1]), Lit(t[2])), Lit(t[3])),
                         overflow_checks)

C8_Associativity ==
    Len(results) >= 1 =>
      /\ \A t \in Shape3("^", "^") :
           /\ results[1] = GroupedRight("^", t)
           /\ (/\ SatPow(t[2], t[3]) < Pow2(U32Bits)
               /\ SatPow(t[1], SatPow(t[2], t[3])) <= I64_MAX)
                => results[1] = Ok(Integer(SatPow(t[1], SatPow(t[2], t[3]))))
      /\ \A t \in Shape3("-", "-") :
           /\ results[1] = GroupedLeft("-", t)
           /\ FitsI64(t[1] - t[2] - t[3])
                => results[1] = Ok(Integer((t[1] - t[2]) - t[3]))
      /\ \A t \in Shape3("/", "/") :
           /\ results[1] = GroupedLeft("/", t)
           /\ (t[2] # 0 /\ t[3] # 0)
                => results[1] = Ok(Integer(TruncDiv(TruncDiv(t[1], t[2]), t[3])))

\* "a^b^c" has returned a^(b^c) where (a^b)^c is something else.
C8_Witness ==
    /\ Len(results) >= 1
    /\ \E t \in Shape3("^", "^") :
         /\ GroupedRight("^", t) # GroupedLeft("^", t)
         /\ IsOk(GroupedRight("^", t))
         /\ results[1] = GroupedRight("^", t)

(***************************************************************************)
(* C9: factorial is defined only for non-negative Integers: "n!" yields    *)
(* Integer(1*2*...*n) for every literal n >= 0; a negative Integer         *)
(* operand, as in "-1!" which groups as (-1)!, yields the Value error      *)
(* "Can't take factorial of negative number"; a Float operand yields a     *)
(* Value error.                                                            *)
(***************************************************************************)
C9_Factorial ==
    (Len(results) >= 1 /\ Len(input) >= 2 /\ input[Len(input)] = "!") =>
      LET operand == Take(input, Len(input) - 1)
      IN /\ IsLit(operand)
              \* the exact product, which a saturated one is not
           => /\ SatFactorial(LitVal(operand)) <= I64_MAX
              /\ results[1] = Ok(Integer(SatFactorial(LitVal(operand))))
         /\ (IsSignedLit(operand) /\ SignedVal(operand) < 0)
           => results[1] = ValueError(<<"Can't take factorial of negative number">>)
         /\ IsFloatLit(operand)
           => (results[1].tag = "Err" /\ results[1].kind = "Value")

(***************************************************************************)
(* C10: the evaluator is total: every call returns one Value or one error; *)
(* no Integer operation (subtraction, negation, division, remainder,       *)
(* factorial) aborts the call or leaves it without a result.               *)
(***************************************************************************)
C10_EvaluatorTotal ==
    \A i \in 1..Len(results) :
      \/ results[i].tag = "Ok"
      \/ results[i].tag = "Err" /\ results[i].kind \in {"Parse", "Value"}

(***************************************************************************)
(* C11: wherever an atom is expected (at the start of the input a call     *)
(* reads, after a consumed prefix or infix operator token, after a         *)
(* consumed `(`), the call returns a Parse error if the input has ended    *)
(* or the next item is neither a number, `(`, `+` nor `-`; and a call      *)
(* that consumed a `(` without its `)` returns a Parse error.              *)
(***************************************************************************)
\* The items a call consumed: the one cached before it and those it pulled,
\* less the one it only peeked and left in the cache.
ConsumedItems(st, st2) ==
    LET cached == IF st.peeked = None THEN <<>> ELSE <<st.peeked.val>>
        pulled == cached \o Pulled(st.iter, st2.iter)
        items == SelectSeq(pulled, LAMBDA item : item # None)
    IN IF st2.peeked # None /\ st2.peeked # Some(None) /\ Len(items) > 0
       THEN Take(items, Len(items) - 1)
       ELSE items

IsTokenOf(item, types) == IsOk(item.val) /\ item.val.val.type \in types

AtomExpectedAfter(item) ==
    IsTokenOf(item, {"Plus", "Minus", "Asterisk", "Slash", "Caret", "Percent",
                     "OpenParen"})

StartsAtom(item) == IsTokenOf(item, {"Number", "OpenParen", "Plus", "Minus"})

CountOf(items, type) ==
    Cardinality({i \in 1..Len(items) : IsTokenOf(items[i], {type})})

IsParseError(r) == r.tag = "Err" /\ r.kind = "Parse"

C11_AtomExpected ==
    [][IsCall =>
         LET c == ConsumedItems(parser, parser')
         IN /\ \A k \in 0..Len(c) :
                 ( /\ k = 0 \/ AtomExpectedAfter(c[k])
                   /\ k = Len(c) \/ ~StartsAtom(c[k + 1]) )
                   => IsParseError(Returned)
            /\ CountOf(c, "OpenParen") # CountOf(c, "CloseParen")
                 => IsParseError(Returned)]_vars

\* "1*!1" was rejected at the `!` behind the `*`.
C11_Witness ==
    /\ input = <<"1", "*", "!", "1">>
    /\ Len(results) >= 1
    /\ results[1] = ParseError(<<"Expected expression atom, found ", "!">>)

(***************************************************************************)
(* C12: each item pulled from the Lexer is an independent success or       *)
(* failure.  The characters of the items pulled so far, in order, are the  *)
(* consumed part of the input without its whitespace: every item stands    *)
(* for at least one character, an error item for exactly one, which is the *)
(* unrecognised character it names, and no token holds an unrecognised     *)
(* character, so the pulls behind an error go on tokenising the rest.  The *)
(* end of the sequence is yielded only once the input is exhausted, and    *)
(* then by every further pull.                                             *)
(***************************************************************************)
\* The characters an item stands for.
ItemText(item) ==
    IF IsOk(item.val) THEN Token_fmt(item.val.val) ELSE <<item.val.msg[2]>>

RECURSIVE TextOf(_)
TextOf(its) ==
    IF Len(its) = 0 THEN <<>>
    ELSE (IF its[1] = None THEN <<>> ELSE ItemText(its[1])) \o TextOf(Tail(its))

WithoutSpace(s) == SelectSeq(s, LAMBDA c : ~is_whitespace(c))

\* A character that starts no token.
Unrecognised(c) ==
    c \notin {"0", "1", "2", "3", "4", "5", "6", "7", "8", "9",
              "=", ">", "<", "+", "-", "*", "/", "^", "%", "(", ")", "!"}

C12_LexerItems ==
    /\ TextOf(yielded) = WithoutSpace(Take(input, Len(input) - Len(lexer)))
    /\ \A i \in 1..Len(yielded) :
         /\ yielded[i] # None =>
              /\ Len(ItemText(yielded[i])) >= 1
              /\ IsOk(yielded[i].val) =>
                   \A k \in 1..Len(ItemText(yielded[i])) :
                     \/ ~Unrecognised(ItemText(yielded[i])[k])
                     \/ ItemText(yielded[i])[k] = "." /\ k > 1
              /\ ~IsOk(yielded[i].val) =>
                   /\ Unrecognised(yielded[i].val.msg[2])
                   /\ yielded[i].val =
                        ParseError(<<"Unexpected character ", yielded[i].val.msg[2]>>)
         /\ yielded[i] = None =>
              /\ lexer = <<>>
              /\ \A j \in i..Len(yielded) : yielded[j] = None

\* "1++m+" has yielded Number, Plus, Plus, an error for `m`, Plus and then the
\* end of the sequence.
C12_Witness ==
    /\ input = <<"1", "+", "+", "m", "+">>
    /\ yielded = <<Some(Ok(Number(<<"1">>))), Some(Ok(Token("Plus"))),
                   Some(Ok(Token("Plus"))),
                   Some(ParseError(<<"Unexpected character ", "m">>)),
                   Some(Ok(Token("Plus"))), None>>

====
